---------------------------- MODULE Spec2Model ----------------------------
(***************************************************************************)
(* Model of fio's mmap I/O engine (engines/mmap.c): the per-file mapping   *)
(* window kept in f->mmap_ptr / f->mmap_off / f->mmap_sz, the prepare      *)
(* handler fio_mmapio_prep (with fio_mmap_file), the execute handler       *)
(* fio_mmapio_queue and the engine initialisation fio_mmapio_init.         *)
(*                                                                         *)
(* The operating system is modelled by the set `maps` of live mappings and *)
(* by `data`, the bytes of each file; every system call takes its outcome  *)
(* (success or failure) as an input of the handler that issues it.         *)
(* Sizes are scaled down: MMAP_TOTAL_SZ is BudgetScale bytes instead of    *)
(* 1 GiB, files are a few bytes long.                                      *)
(***************************************************************************)
EXTENDS Integers, Sequences, FiniteSets, TLC

\* ---------------------------------------------------------------- bounds
BudgetScale == 4
MaxFiles == 2

\* ------------------------------------------------------ program constants
MMAP_TOTAL_SZ == BudgetScale
NULL == 0
EIO == 5
ENOMEM == 12
EINVAL == 22
FIO_Q_COMPLETED == 0

\* --------------------------------------------------- environment's sizes
RealFileSize == MMAP_TOTAL_SZ - 1
FileOffsets == {0, 1}
Byte == {0, 1}
NAddr == MaxFiles + 1
Addrs == 1..NAddr
DDirs == {"DDIR_READ", "DDIR_WRITE", "DDIR_SYNC"}

VARIABLES
    pc,             \* "new" (engine not initialised), "idle" (no request in hand),
                    \* "prepped" / "failed" (prepare returned 0 / an error),
                    \* "completed" (execute returned), "crashed" (the process faulted)
    op,             \* the handler that ran last: "none", "init", "prep", "queue"
    td,             \* thread_data options: td_ddir, verify, random, odirect, nr_files
    mmap_map_size,  \* static unsigned long mmap_map_size
    mmap_map_mask,  \* static unsigned long mmap_map_mask
    files,          \* fio_file per file: mmap_ptr, mmap_sz, mmap_off, io_size, file_offset
    data,           \* the bytes of each file, by absolute file offset
    maps,           \* the live mappings of the process
    io_u,           \* the request being prepared / executed
    calls,          \* the calls the last handler issued, in order
    ret,            \* the value the last handler returned
    pre,            \* history: the file's window and the live mappings as the last
                    \* prepare or execute found them
    rt              \* history: the last executed write and whether its window was replaced

vars == <<pc, op, td, mmap_map_size, mmap_map_mask, files, data, maps, io_u, calls, ret,
          pre, rt>>

\* ------------------------------------------------------------- helpers
Min(a, b) == IF a < b THEN a ELSE b

BytesOf(n) == [1..n -> Byte]

Call(o, fd, ptr, off, len, flags, ok) ==
    [op |-> o, fd |-> fd, ptr |-> ptr, off |-> off, len |-> len, flags |-> flags, ok |-> ok]

CallOps(cs) == {cs[i].op : i \in DOMAIN cs}

\* td_rw / td_write / td_read / td_random of fio.h, on the options record
td_rw(t) == t.ddir = "rw"
td_write(t) == t.ddir \in {"write", "rw"}
td_read(t) == t.ddir \in {"read", "rw"}
td_random(t) == t.random

\* ------------------------------------------------------ fio_mmapio_init
MapSize_undivided(n) == MMAP_TOTAL_SZ

MapSize(n) == MMAP_TOTAL_SZ \div n

RECURSIVE ShiftLoop(_, _)
ShiftLoop(mask, shift) ==
    LET m == mask \div 2
    IN IF m = 0 THEN shift ELSE ShiftLoop(m, shift + 1)

MapMask_roundUp(size) == 2 ^ (ShiftLoop(size, 0) + 1)

MapMask(size) == 2 ^ ShiftLoop(size, 0)

\* -------------------------------------------------------- fio_mmap_file
Prot_unverified(t) ==
    IF td_rw(t) THEN {"PROT_READ", "PROT_WRITE"}
    ELSE IF td_write(t) THEN {"PROT_WRITE"}
    ELSE {"PROT_READ"}

Prot(t) ==
    IF td_rw(t) THEN {"PROT_READ", "PROT_WRITE"}
    ELSE IF td_write(t)
         THEN IF t.verify THEN {"PROT_WRITE", "PROT_READ"} ELSE {"PROT_WRITE"}
         ELSE {"PROT_READ"}

Advice_sequential(t) == "MADV_SEQUENTIAL"

Advice(t) == IF ~td_random(t) THEN "MADV_SEQUENTIAL" ELSE "MADV_RANDOM"

\* the address mmap(NULL, ...) hands out for a mapping of file f: one that no
\* live mapping occupies (address f when it is free, else the lowest free one;
\* which free address the kernel picks is immaterial to the engine)
FreshPtr(ms, f) ==
    LET free == {a \in Addrs : \A m \in ms : m.ptr # a}
    IN IF free = {} THEN NULL
       ELSE IF f \in free THEN f
       ELSE CHOOSE a \in free : \A b \in free : a <= b

\* munmap(ptr, len) that succeeds removes the mapping at ptr when len covers it
\* (a shorter len leaves the mapping's tail mapped)
OsMunmap(ms, ptr, len) == {m \in ms : m.ptr # ptr \/ m.len > len}

\* [ret, mmap_ptr, maps, calls] of fio_mmap_file(td, f, length, off) run on the
\* live mappings ms; mmapOk / madviseOk are the outcomes of the two system calls
fio_mmap_file(t, f, length, off, ms, mmapOk, madviseOk) ==
    LET flags == Prot(t)
        p == FreshPtr(ms, f)
        mapped == mmapOk /\ p # NULL /\ length > 0
        m0 == [ptr |-> p, file |-> f, off |-> off, len |-> length,
               prot |-> flags, advice |-> "none"]
        cMmap == Call("mmap", f, IF mapped THEN p ELSE NULL, off, length, flags, mapped)
        cAdv == Call("madvise", 0, p, 0, length, {Advice(t)}, madviseOk)
    IN IF ~mapped
       THEN [ret |-> 0, mmap_ptr |-> NULL, maps |-> ms,
             calls |-> <<cMmap, Call("td_verror", 0, 0, 0, ENOMEM, {"mmap"}, TRUE)>>]
       ELSE IF madviseOk
            THEN [ret |-> 0, mmap_ptr |-> p,
                  maps |-> ms \cup {[m0 EXCEPT !.advice = Advice(t)]},
                  calls |-> <<cMmap, cAdv>>]
            ELSE [ret |-> 0, mmap_ptr |-> p, maps |-> ms \cup {m0},
                  calls |-> <<cMmap, cAdv,
                              Call("td_verror", 0, 0, 0, EINVAL, {"madvise"}, TRUE)>>]

\* ------------------------------------------------------ fio_mmapio_prep
TooLarge_slack(buflen) == buflen > mmap_map_size + 1

TooLarge(buflen) == buflen > mmap_map_size

WindowHit_strictStart(fl, offset, buflen) ==
    /\ offset > fl.mmap_off
    /\ offset + buflen < fl.mmap_off + fl.mmap_sz

WindowHit_inclusiveEnd(fl, offset, buflen) ==
    /\ offset >= fl.mmap_off
    /\ offset + buflen <= fl.mmap_off + fl.mmap_sz

WindowHit(fl, offset, buflen) ==
    /\ offset >= fl.mmap_off
    /\ offset + buflen < fl.mmap_off + fl.mmap_sz

NeedUnmap_never(fl) == FALSE

NeedUnmap(fl) == fl.mmap_ptr # NULL

\* munmap(f->mmap_ptr, f->mmap_sz): the length released
UnmapLength_target(fl) == mmap_map_size

UnmapLength(fl) == fl.mmap_sz

WindowLength_uncapped(fl) == mmap_map_size

WindowLength_extent(fl) == fl.io_size

WindowLength(fl) ==
    IF mmap_map_size > fl.io_size THEN fl.io_size ELSE mmap_map_size

WindowOffset(offset) == offset

\* io_u->mmap_data = f->mmap_ptr + io_u->offset - f->mmap_off - f->file_offset,
\* kept as the region it is derived from and the byte index in it
ResolveAddr(fl, offset) ==
    [set |-> TRUE, base |-> fl.mmap_ptr, idx |-> offset - fl.mmap_off - fl.file_offset]

Unresolved == [set |-> FALSE, base |-> NULL, idx |-> 0]

\* [ret, file, maps, calls, mmap_data] of fio_mmapio_prep for request
\* (offset, buflen) on file f, given the outcomes of munmap, mmap and madvise
PrepResult(f, offset, buflen, munmapOk, mmapOk, madviseOk) ==
    LET fl == files[f]
        done(r, fl2, ms, cs) ==
            [ret |-> r, file |-> fl2, maps |-> ms, calls |-> cs,
             mmap_data |-> IF r = 0 THEN ResolveAddr(fl2, offset) ELSE Unresolved]
        err(r, fl2, ms, cs) ==
            [ret |-> r, file |-> fl2, maps |-> ms, calls |-> cs, mmap_data |-> Unresolved]
        cUnmap == Call("munmap", 0, fl.mmap_ptr, 0, UnmapLength(fl), {}, munmapOk)
        unmap == NeedUnmap(fl)
        fl1 == IF unmap THEN [fl EXCEPT !.mmap_ptr = NULL] ELSE fl
        ms1 == IF unmap THEN OsMunmap(maps, fl.mmap_ptr, UnmapLength(fl)) ELSE maps
        cs1 == IF unmap THEN <<cUnmap>> ELSE <<>>
        fl2 == [fl1 EXCEPT !.mmap_sz = WindowLength(fl1),
                           !.mmap_off = WindowOffset(offset)]
        r == fio_mmap_file(td, f, fl2.mmap_sz, fl2.mmap_off, ms1, mmapOk, madviseOk)
    IN IF TooLarge(buflen)
       THEN err(EIO, fl, maps, <<Call("log_err", 0, 0, 0, 0, {}, TRUE)>>)
       ELSE IF WindowHit(fl, offset, buflen)
       THEN done(0, fl, maps, <<>>)
       ELSE IF unmap /\ ~munmapOk
       THEN err(EINVAL, fl, maps, <<cUnmap>>)
       ELSE done(r.ret, [fl2 EXCEPT !.mmap_ptr = r.mmap_ptr], r.maps, cs1 \o r.calls)

\* the requests the workload driver issues against file f: inside the file's
\* I/O region, in a direction the workload's mode allows
Requests(f, ddirs) ==
    {q \in [ddir : ddirs, offset : 0..(RealFileSize - 1), buflen : 1..RealFileSize] :
        /\ files[f].file_offset <= q.offset
        /\ q.offset + q.buflen <= files[f].file_offset + files[f].io_size
        /\ q.ddir = "DDIR_WRITE" => td_write(td)
        /\ q.ddir = "DDIR_READ" => (td_read(td) \/ td.verify)}

\* ----------------------------------------------------- fio_mmapio_queue
\* the live mapping that holds the len bytes at addr, backed by the file and
\* accessible with protection need; {} when the access is outside every mapping
Backing(ms, addr, len, need) ==
    {m \in ms : /\ addr.base # NULL
                /\ m.ptr = addr.base
                /\ addr.idx >= 0
                /\ addr.idx + len <= m.len
                /\ m.off + addr.idx + len <= RealFileSize
                /\ need \in m.prot}

\* memcpy(io_u->xfer_buf, io_u->mmap_data, io_u->xfer_buflen)
ReadBytes(m, addr, len) ==
    [i \in 1..len |-> data[m.file][m.off + addr.idx + i - 1]]

\* memcpy(io_u->mmap_data, io_u->xfer_buf, io_u->xfer_buflen) on a shared mapping
WriteBytes(m, addr, len, buf) ==
    [data EXCEPT ![m.file] =
        [x \in DOMAIN @ |->
            IF m.off + addr.idx <= x /\ x < m.off + addr.idx + len
            THEN buf[x - (m.off + addr.idx) + 1] ELSE @[x]]]

\* ddir_sync(io_u->ddir)
ddir_sync(ddir) == ddir = "DDIR_SYNC"

\* td->o.odirect && !ddir_sync(io_u->ddir): the cache drop after the copy
CacheDrop_syncToo(t, ddir) == t.odirect

CacheDrop(t, ddir) == t.odirect /\ ~ddir_sync(ddir)

\* msync(f->mmap_ptr, f->mmap_sz, MS_SYNC): the range a sync request flushes
SyncRange(fl) == [base |-> fl.mmap_ptr, idx |-> 0, len |-> fl.mmap_sz]

\* msync / madvise(io_u->mmap_data, io_u->xfer_buflen): the range dropped
DropRange(u) == [base |-> u.mmap_data.base, idx |-> u.mmap_data.idx, len |-> u.buflen]

\* return FIO_Q_COMPLETED, whatever io_u->error holds
QueueRet_error(error) == IF error # 0 THEN error ELSE FIO_Q_COMPLETED

QueueRet(error) == FIO_Q_COMPLETED

\* msync / madvise on [ptr + idx, ptr + idx + len) succeed only on mapped memory
RangeMapped(ms, base, idx, len) ==
    \E m \in ms : m.ptr = base /\ base # NULL /\ idx >= 0 /\ idx + len <= m.len

\* ---------------------------------------------------------------- state
TdOptions ==
    {t \in [ddir : {"read", "write", "rw"}, verify : BOOLEAN, random : BOOLEAN,
            odirect : BOOLEAN, nr_files : 1..MaxFiles] :
        t.verify => t.ddir = "write"}

NoWindow ==
    [mmap_ptr |-> NULL, mmap_sz |-> 0, mmap_off |-> 0, io_size |-> 0, file_offset |-> 0]

NoPre == [file |-> NoWindow, maps |-> {}]

NoRequest ==
    [file |-> 0, ddir |-> "DDIR_SYNC", offset |-> 0, buflen |-> 0, xfer_buf |-> <<>>,
     mmap_data |-> Unresolved, error |-> 0]

\* rt.stage: 0 no write executed yet, 1 a write executed, 2 and its file's window
\* replaced since; -1 when the history is not recorded
NoWrite == [stage |-> 0, file |-> 0, offset |-> 0, buflen |-> 0, bytes |-> <<>>]
Untracked == [NoWrite EXCEPT !.stage = -1]

\* tds: the workload options; fos1 / fosN: the leading offsets of file 1 / of
\* the other files; rt0: the initial history record
InitWith(tds, fos1, fosN, rt0) ==
    /\ pc = "new"
    /\ op = "none"
    /\ td \in tds
    /\ mmap_map_size = 0
    /\ mmap_map_mask = 0
    /\ \E fo \in {g \in [1..td.nr_files -> fos1 \cup fosN] :
                       g[1] \in fos1 /\ \A f \in 2..td.nr_files : g[f] \in fosN} :
          files = [f \in 1..td.nr_files |->
                      [mmap_ptr |-> NULL, mmap_sz |-> 0, mmap_off |-> 0,
                       io_size |-> RealFileSize - fo[f], file_offset |-> fo[f]]]
    /\ data = [f \in 1..td.nr_files |-> [x \in 0..(RealFileSize - 1) |-> 0]]
    /\ maps = {}
    /\ io_u = NoRequest
    /\ calls = <<>>
    /\ ret = 0
    /\ pre = NoPre
    /\ rt = rt0

\* -------------------------------------------------------------- actions
fio_mmapio_init ==
    /\ pc = "new"
    /\ mmap_map_size' = MapSize(td.nr_files)
    /\ mmap_map_mask' = MapMask(MapSize(td.nr_files))
    /\ pc' = "idle"
    /\ op' = "init"
    /\ ret' = 0
    /\ calls' = <<>>
    /\ UNCHANGED <<td, files, data, maps, io_u, pre, rt>>

fio_mmapio_prep(f, q, buf, munmapOk, mmapOk, madviseOk) ==
    LET r == PrepResult(f, q.offset, q.buflen, munmapOk, mmapOk, madviseOk)
        replaced == \E i \in DOMAIN r.calls : r.calls[i].op = "mmap" /\ r.calls[i].ok
    IN /\ pc = "idle"
       /\ files' = [files EXCEPT ![f] = r.file]
       /\ maps' = r.maps
       /\ io_u' = [file |-> f, ddir |-> q.ddir, offset |-> q.offset, buflen |-> q.buflen,
                   xfer_buf |-> buf, mmap_data |-> r.mmap_data, error |-> 0]
       /\ calls' = r.calls
       /\ ret' = r.ret
       /\ pc' = IF r.ret = 0 THEN "prepped" ELSE "failed"
       /\ op' = "prep"
       /\ pre' = [file |-> files[f], maps |-> maps]
       /\ rt' = IF rt.stage = 1 /\ rt.file = f /\ replaced
                THEN [rt EXCEPT !.stage = 2] ELSE rt
       /\ UNCHANGED <<td, mmap_map_size, mmap_map_mask, data>>

\* the driver prepares a request against one of the files fs, in one of the
\* directions ddirs, writing one of the buffers bufs; the outcome of a system
\* call is drawn only when the handler issues the call (it stops at the first
\* call that fails)
Prep(fs, ddirs, bufs) ==
    \E f \in fs : \E q \in Requests(f, ddirs) :
    \E buf \in (IF q.ddir = "DDIR_WRITE" THEN {b \in bufs : Len(b) = q.buflen}
                ELSE {[i \in 1..q.buflen |-> 0]}) :
    LET miss == ~TooLarge(q.buflen) /\ ~WindowHit(files[f], q.offset, q.buflen)
        fails == IF ~miss THEN {"none"}
                 ELSE {"none", "mmap", "madvise"}
                      \cup (IF NeedUnmap(files[f]) THEN {"munmap"} ELSE {})
    IN \E fail \in fails :
          fio_mmapio_prep(f, q, buf, fail # "munmap", fail # "mmap", fail # "madvise")

\* fio_mmapio_queue(td, io_u); msyncOk and dropOk are the outcomes of msync and
\* of madvise(MADV_DONTNEED); stray is what a copy outside every mapping does
\* when it does not fault ("crash" when it faults), garbage what it then reads
fio_mmapio_queue(msyncOk, dropOk, stray, garbage) ==
    LET f == io_u.file
        fl == files[f]
        a == io_u.mmap_data
        len == io_u.buflen
        isRead == io_u.ddir = "DDIR_READ"
        isWrite == io_u.ddir = "DDIR_WRITE"
        isSync == ddir_sync(io_u.ddir)
        bk == Backing(maps, a, len, IF isRead THEN "PROT_READ" ELSE "PROT_WRITE")
        valid == bk # {}
        m == CHOOSE x \in bk : TRUE
        fault == (isRead \/ isWrite) /\ ~valid /\ (a.base = NULL \/ stray = "crash")
        cCopy == Call(IF isRead THEN "memcpy_from_map" ELSE "memcpy_to_map",
                      0, a.base, a.idx, len, {}, ~fault)
        cs0 == IF isRead \/ isWrite THEN <<cCopy>> ELSE <<>>
        sr == SyncRange(fl)
        syncOk == msyncOk /\ RangeMapped(maps, sr.base, sr.idx, sr.len)
        cSync == Call("msync", 0, sr.base, sr.idx, sr.len, {"MS_SYNC"}, syncOk)
        cs1 == IF isSync
               THEN IF syncOk THEN <<cSync>>
                    ELSE <<cSync, Call("td_verror", 0, 0, 0, EINVAL, {"msync"}, TRUE)>>
               ELSE <<>>
        e1 == IF isSync /\ ~syncOk THEN EINVAL ELSE io_u.error
        direct == CacheDrop(td, io_u.ddir)
        dr == DropRange(io_u)
        flushOk == msyncOk /\ RangeMapped(maps, dr.base, dr.idx, dr.len)
        discardOk == dropOk /\ RangeMapped(maps, dr.base, dr.idx, dr.len)
        cFlush == Call("msync", 0, dr.base, dr.idx, dr.len, {"MS_SYNC"}, flushOk)
        cDrop == Call("madvise", 0, dr.base, dr.idx, dr.len, {"MADV_DONTNEED"}, discardOk)
        cs2 == IF direct
               THEN (IF flushOk THEN <<cFlush>>
                     ELSE <<cFlush, Call("td_verror", 0, 0, 0, EINVAL, {"msync"}, TRUE)>>)
                    \o (IF discardOk THEN <<cDrop>>
                        ELSE <<cDrop, Call("td_verror", 0, 0, 0, EINVAL, {"madvise"}, TRUE)>>)
               ELSE <<>>
        e2 == IF direct /\ (~flushOk \/ ~discardOk) THEN EINVAL ELSE e1
    IN /\ pc = "prepped"
       /\ op' = "queue"
       /\ pre' = [file |-> fl, maps |-> maps]
       /\ IF fault
          THEN /\ pc' = "crashed"
               /\ calls' = cs0
               /\ UNCHANGED <<io_u, data, ret, rt>>
          ELSE /\ pc' = "completed"
               /\ calls' = cs0 \o cs1 \o cs2
               /\ ret' = QueueRet(e2)
               /\ io_u' = [io_u EXCEPT
                              !.xfer_buf = IF isRead
                                           THEN IF valid THEN ReadBytes(m, a, len)
                                                ELSE garbage
                                           ELSE @,
                              !.error = e2]
               /\ data' = IF isWrite /\ valid THEN WriteBytes(m, a, len, io_u.xfer_buf)
                          ELSE data
               /\ rt' = IF isWrite /\ rt.stage >= 0
                        THEN [stage |-> 1, file |-> f, offset |-> io_u.offset,
                              buflen |-> len, bytes |-> io_u.xfer_buf]
                        ELSE rt
       /\ UNCHANGED <<td, mmap_map_size, mmap_map_mask, files, maps>>

\* the outcomes are drawn only for the calls the request's direction and the
\* uncached flag make the handler issue
Queue ==
    LET isSync == ddir_sync(io_u.ddir)
        copyOk == Backing(maps, io_u.mmap_data, io_u.buflen,
                          IF io_u.ddir = "DDIR_READ" THEN "PROT_READ" ELSE "PROT_WRITE") # {}
        wild == ~isSync /\ ~copyOk /\ io_u.mmap_data.base # NULL
    IN \E msyncOk \in (IF isSync \/ CacheDrop(td, io_u.ddir) THEN BOOLEAN ELSE {TRUE}) :
       \E dropOk \in (IF CacheDrop(td, io_u.ddir) THEN BOOLEAN ELSE {TRUE}) :
       \E stray \in (IF wild THEN {"crash", "stray"} ELSE {"crash"}) :
       \E garbage \in (IF wild /\ io_u.ddir = "DDIR_READ" THEN BytesOf(io_u.buflen)
                       ELSE {io_u.xfer_buf}) :
           fio_mmapio_queue(msyncOk, dropOk, stray, garbage)

\* the driver takes the request back (after a failed prepare or a completed
\* execute) and is ready to issue the next one
Reap ==
    /\ pc \in {"failed", "completed"}
    /\ pc' = "idle"
    /\ op' = "none"
    /\ io_u' = NoRequest
    /\ calls' = <<>>
    /\ ret' = 0
    /\ pre' = NoPre
    /\ UNCHANGED <<td, mmap_map_size, mmap_map_mask, files, data, maps, rt>>

\* the workload's request stream changes between sequential and random
\* (td_random(td) is read anew by every fio_mmap_file)
SwitchMode ==
    /\ pc = "idle"
    /\ td' = [td EXCEPT !.random = ~@]
    /\ UNCHANGED <<pc, op, mmap_map_size, mmap_map_mask, files, data, maps, io_u,
                   calls, ret, pre, rt>>

AllBufs == UNION {BytesOf(n) : n \in 1..RealFileSize}
ZeroBufs == {[i \in 1..n |-> 0] : n \in 1..RealFileSize}

\* One file of the engine's nr_files files is driven, under every combination of
\* the workload options.
Init == InitWith(TdOptions, FileOffsets, {0}, Untracked)

Next ==
    \/ fio_mmapio_init
    \/ Prep({1}, DDirs, ZeroBufs)
    \/ Queue
    \/ Reap

Spec == Init /\ [][Next]_vars

\* All files of the engine are driven, by a mixed sequential cached workload.
InitFiles ==
    InitWith({t \in TdOptions : t.ddir = "rw" /\ ~t.random /\ ~t.odirect},
             FileOffsets, FileOffsets, Untracked)

NextFiles ==
    \/ fio_mmapio_init
    \/ Prep(DOMAIN files, {"DDIR_READ"}, ZeroBufs)
    \/ Queue
    \/ Reap

SpecFiles == InitFiles /\ [][NextFiles]_vars

\* The engine is initialised for every file count up to past the budget, where
\* the budget divided by the count reaches zero; one file is driven.
InitFileCounts == 1..(MMAP_TOTAL_SZ + 2)

InitCounts ==
    InitWith({[t EXCEPT !.nr_files = n] : t \in TdOptions, n \in InitFileCounts},
             FileOffsets, {0}, Untracked)

SpecCounts == InitCounts /\ [][Next]_vars

\* One file, read by a mixed cached workload that changes between sequential
\* and random requests while the engine runs.
InitAdvice ==
    InitWith({t \in TdOptions : t.ddir = "rw" /\ ~t.odirect}, FileOffsets, {0}, Untracked)

NextAdvice ==
    \/ fio_mmapio_init
    \/ Prep({1}, {"DDIR_READ"}, ZeroBufs)
    \/ Queue
    \/ Reap
    \/ SwitchMode

SpecAdvice == InitAdvice /\ [][NextAdvice]_vars

\* One file, a mixed workload writing every byte pattern, with the history of
\* the last write recorded.
InitRT ==
    InitWith({t \in TdOptions : t.ddir = "rw" /\ ~t.random /\ ~t.odirect /\ t.nr_files = 1},
             FileOffsets, {0}, NoWrite)

NextRT ==
    \/ fio_mmapio_init
    \/ Prep({1}, {"DDIR_READ", "DDIR_WRITE"}, AllBufs)
    \/ Queue
    \/ Reap

SpecRT == InitRT /\ [][NextRT]_vars

\* ------------------------------------------------------------ properties
\* the state right after fio_mmapio_prep returned: io_u is the request, pre the
\* window and the mappings it found, files[io_u.file] the window it left
PostPrep == op = "prep"
Before == pre.file
After == files[io_u.file]

MapCalls == {"mmap", "munmap", "madvise"}
Failed(ops) == \E i \in DOMAIN calls : calls[i].op \in ops /\ ~calls[i].ok
Issued(o) == \E i \in DOMAIN calls : calls[i].op = o
LiveOf(ms, f) == {m \in ms : m.file = f}

\* C1 (as claimed): whenever prepare returns 0 for (offset, length), the file has
\* a live mapping and its window covers [offset, offset + length).
C1_SuccessImpliesCoveringWindow ==
    (PostPrep /\ ret = 0) =>
        /\ After.mmap_ptr # NULL
        /\ \E m \in maps : m.ptr = After.mmap_ptr
        /\ After.mmap_off <= io_u.offset
        /\ io_u.offset + io_u.buflen <= After.mmap_off + After.mmap_sz

\* C2: a request longer than the target window size T / N is rejected with an
\* error; prepare issues no mmap, munmap or madvise call, resolves no address and
\* leaves the window (base, offset, length) and the live mappings as they were.
C2_TooLargeRejectedUntouched ==
    (PostPrep /\ io_u.buflen > MMAP_TOTAL_SZ \div td.nr_files) =>
        /\ ret # 0
        /\ pc = "failed"
        /\ CallOps(calls) \cap MapCalls = {}
        /\ ~io_u.mmap_data.set
        /\ After = Before
        /\ maps = pre.maps

\* a too-large request was rejected while the file had a window mapped
C2_Witness ==
    /\ PostPrep
    /\ io_u.buflen > mmap_map_size
    /\ ret = EIO
    /\ Before.mmap_ptr # NULL
    /\ After.mmap_ptr = Before.mmap_ptr

\* C3 (as claimed): a request whose range is contained in the half-open range
\* [window_offset, window_offset + window_length) of an established window is
\* served without mmap or munmap and leaves the window unchanged.
C3_ContainedImpliesReuse ==
    (/\ PostPrep
     /\ Before.mmap_ptr # NULL
     /\ Before.mmap_off <= io_u.offset
     /\ io_u.offset + io_u.buflen <= Before.mmap_off + Before.mmap_sz) =>
        /\ ~Issued("mmap")
        /\ ~Issued("munmap")
        /\ After = Before
        /\ maps = pre.maps

\* C3 (amended): a request that starts at or after window_offset and ends
\* strictly before window_offset + window_length of an established window is
\* served without mmap or munmap, successfully, and leaves the window unchanged.
C3_StrictlyInsideImpliesReuse ==
    (/\ PostPrep
     /\ Before.mmap_ptr # NULL
     /\ Before.mmap_off <= io_u.offset
     /\ io_u.offset + io_u.buflen < Before.mmap_off + Before.mmap_sz) =>
        /\ ~Issued("mmap")
        /\ ~Issued("munmap")
        /\ ret = 0
        /\ After = Before
        /\ maps = pre.maps

\* a second request strictly inside the established window was reused
C3_Witness ==
    /\ PostPrep
    /\ Before.mmap_ptr # NULL
    /\ Before.mmap_off <= io_u.offset
    /\ io_u.offset + io_u.buflen < Before.mmap_off + Before.mmap_sz
    /\ calls = <<>>
    /\ pc = "prepped"

\* C4: a request (that passes the size check) whose range ends exactly at the end
\* of the established window is a miss: prepare first calls munmap on the current
\* window, and once that succeeds it calls mmap for a window that starts at the
\* request's offset, which becomes the file's window when mmap succeeds.
C4_EndExactIsMiss ==
    (/\ PostPrep
     /\ Before.mmap_ptr # NULL
     /\ io_u.buflen <= MMAP_TOTAL_SZ \div td.nr_files
     /\ io_u.offset + io_u.buflen = Before.mmap_off + Before.mmap_sz) =>
        /\ Len(calls) >= 1
        /\ calls[1].op = "munmap"
        /\ calls[1].ptr = Before.mmap_ptr
        /\ calls[1].len = Before.mmap_sz
        /\ calls[1].ok =>
              /\ Len(calls) >= 2
              /\ calls[2].op = "mmap"
              /\ calls[2].off = io_u.offset
              /\ After.mmap_off = io_u.offset
              /\ calls[2].ok =>
                    /\ After.mmap_ptr = calls[2].ptr
                    /\ \E m \in maps : /\ m.ptr = After.mmap_ptr
                                       /\ m.off = io_u.offset
                                       /\ m.file = io_u.file

\* the one-byte request at the last byte of the window replaced the window
C4_Witness ==
    /\ PostPrep
    /\ Before.mmap_ptr # NULL
    /\ io_u.buflen = 1
    /\ io_u.offset = Before.mmap_off + Before.mmap_sz - 1
    /\ Before.mmap_off < io_u.offset
    /\ Len(calls) >= 2
    /\ calls[1].op = "munmap" /\ calls[1].ok
    /\ calls[2].op = "mmap" /\ calls[2].ok
    /\ After.mmap_off = io_u.offset
    /\ After.mmap_ptr # NULL

\* C5: a file never has more than one live mapping, and whenever prepare calls
\* mmap every mapping the file had was released first by a successful munmap
\* issued earlier in the same call.
C5_AtMostOneLiveMapping ==
    /\ \A f \in DOMAIN files : Cardinality(LiveOf(maps, f)) <= 1
    /\ PostPrep =>
          \A i \in DOMAIN calls : calls[i].op = "mmap" =>
              \A m \in LiveOf(pre.maps, io_u.file) :
                  \E j \in 1..(i - 1) : /\ calls[j].op = "munmap"
                                        /\ calls[j].ok
                                        /\ calls[j].ptr = m.ptr
                                        /\ calls[j].len = m.len

\* a window was replaced: munmap released the old mapping, then mmap succeeded,
\* and the file has exactly one live mapping
C5_Witness ==
    /\ PostPrep
    /\ Len(calls) >= 2
    /\ calls[1].op = "munmap" /\ calls[1].ok
    /\ calls[2].op = "mmap" /\ calls[2].ok
    /\ Cardinality(LiveOf(pre.maps, io_u.file)) = 1
    /\ Cardinality(LiveOf(maps, io_u.file)) = 1

\* C6 (as claimed): when mmap or madvise fails on a miss, prepare returns a
\* non-zero error and writes no resolved address into the request.
C6_MapFailureReturnsError ==
    (PostPrep /\ Failed({"mmap", "madvise"})) =>
        /\ ret # 0
        /\ ~io_u.mmap_data.set

\* C7 (as claimed): after a prepare in which munmap, mmap or madvise failed the
\* window state is cleared: base is NULL and no non-empty range stays recorded.
C7_FailureClearsWindow ==
    (PostPrep /\ Failed(MapCalls)) =>
        /\ After.mmap_ptr = NULL
        /\ After.mmap_sz = 0

\* C8: init sets window_size = T / N (integer division), and every mmap call
\* of prepare asks for a window that starts at the request's offset and is
\* min(T / N, io_size) long; when mmap succeeds that is the file's window.
C8_WindowGeometry ==
    /\ pc # "new" => mmap_map_size = MMAP_TOTAL_SZ \div td.nr_files
    /\ PostPrep =>
          \A i \in DOMAIN calls : calls[i].op = "mmap" =>
              /\ calls[i].off = io_u.offset
              /\ calls[i].len = Min(MMAP_TOTAL_SZ \div td.nr_files, After.io_size)
              /\ After.mmap_off = io_u.offset
              /\ After.mmap_sz = calls[i].len
              /\ calls[i].ok =>
                    \E m \in maps : /\ m.ptr = After.mmap_ptr
                                    /\ m.file = io_u.file
                                    /\ m.off = io_u.offset
                                    /\ m.len = calls[i].len

\* a file whose I/O extent is smaller than the target window size got a window
\* as long as its extent, starting at the request's offset
C8_Witness ==
    /\ PostPrep
    /\ \E i \in DOMAIN calls : calls[i].op = "mmap" /\ calls[i].ok
    /\ After.io_size < mmap_map_size
    /\ After.mmap_sz = After.io_size
    /\ After.mmap_off = io_u.offset
    /\ io_u.offset > 0

RECURSIVE SumLen(_)
SumLen(ms) ==
    IF ms = {} THEN 0
    ELSE LET m == CHOOSE x \in ms : TRUE IN m.len + SumLen(ms \ {m})

\* C9: the lengths of all live mappings never add up to more than the budget
\* T = MMAP_TOTAL_SZ, and no mapping and no recorded window is longer than T / N.
C9_TotalWithinBudget ==
    /\ SumLen(maps) <= MMAP_TOTAL_SZ
    /\ \A m \in maps : m.len <= MMAP_TOTAL_SZ \div td.nr_files
    /\ \A f \in DOMAIN files : files[f].mmap_sz <= MMAP_TOTAL_SZ \div td.nr_files

\* every file of an engine with at least two files has a live mapping, and
\* together they fill the budget
C9_Witness ==
    /\ td.nr_files >= 2
    /\ \A f \in DOMAIN files : LiveOf(maps, f) # {}
    /\ SumLen(maps) = (MMAP_TOTAL_SZ \div td.nr_files) * td.nr_files

\* C10 (as claimed): a write of length bytes at offset o was prepared and
\* executed, the file's window was then replaced, and a read of length bytes at
\* o was prepared and executed: the read's buffer holds the bytes written.
C10_RoundTrip ==
    (/\ op = "queue"
     /\ io_u.ddir = "DDIR_READ"
     /\ rt.stage = 2
     /\ rt.file = io_u.file
     /\ rt.offset = io_u.offset
     /\ rt.buflen = io_u.buflen) =>
        /\ pc = "completed"
        /\ io_u.xfer_buf = rt.bytes

\* the state right after fio_mmapio_queue returned: io_u is the request it
\* executed, calls the calls it issued (td_verror left aside)
PostQueue == op = "queue" /\ pc = "completed"
SysCalls == SelectSeq(calls, LAMBDA c : c.op \notin {"td_verror", "log_err"})
CallSig(c) == <<c.op, c.ptr, c.off, c.len, c.flags>>
Sigs == [i \in DOMAIN SysCalls |-> CallSig(SysCalls[i])]
CopySig ==
    <<IF io_u.ddir = "DDIR_READ" THEN "memcpy_from_map" ELSE "memcpy_to_map",
      io_u.mmap_data.base, io_u.mmap_data.idx, io_u.buflen, {}>>
ReqRange(o, flags) == <<o, io_u.mmap_data.base, io_u.mmap_data.idx, io_u.buflen, flags>>

\* C11: execute of a sync request issues one msync over the whole window
\* (base, window_length) and nothing else; execute of a read or write copies, and
\* with the uncached flag set then flushes and then discards exactly the
\* request's range (resolved address, length), with the flag clear issues neither.
C11_FlushAndDropRanges ==
    PostQueue =>
        IF io_u.ddir = "DDIR_SYNC"
        THEN Sigs = << <<"msync", After.mmap_ptr, 0, After.mmap_sz, {"MS_SYNC"}>> >>
        ELSE IF td.odirect
        THEN Sigs = <<CopySig, ReqRange("msync", {"MS_SYNC"}),
                      ReqRange("madvise", {"MADV_DONTNEED"})>>
        ELSE Sigs = <<CopySig>>

\* an uncached write was copied, flushed and discarded, and a sync of a window
\* longer than one byte flushed the whole window
C11_Witness ==
    /\ PostQueue
    /\ td.odirect
    /\ io_u.ddir = "DDIR_WRITE"
    /\ Len(calls) = 3
    /\ \A i \in DOMAIN calls : calls[i].ok
    /\ io_u.buflen < After.mmap_sz

AdviceOf(t) == IF t.random THEN "MADV_RANDOM" ELSE "MADV_SEQUENTIAL"
Mapped == \E i \in DOMAIN calls : calls[i].op = "mmap" /\ calls[i].ok
AdviceCalls == {i \in DOMAIN calls : calls[i].op = "madvise"}

\* C12: a prepare that establishes a window issues exactly one madvise, after
\* the mmap, over the whole window, MADV_SEQUENTIAL when the workload is
\* sequential at that moment and MADV_RANDOM otherwise; a prepare that maps
\* nothing issues none, and a reuse leaves every mapping with the advice it was
\* given, whatever the workload's mode has become.
C12_OneAdvicePerWindow ==
    PostPrep =>
        /\ Mapped =>
              /\ Cardinality(AdviceCalls) = 1
              /\ \A i \in AdviceCalls :
                    /\ \E j \in 1..(i - 1) : calls[j].op = "mmap"
                    /\ calls[i].ptr = After.mmap_ptr
                    /\ calls[i].off = 0
                    /\ calls[i].len = After.mmap_sz
                    /\ calls[i].flags = {AdviceOf(td)}
                    /\ calls[i].ok =>
                          \E m \in maps : /\ m.ptr = After.mmap_ptr
                                          /\ m.advice = AdviceOf(td)
        /\ ~Mapped => AdviceCalls = {}
        /\ (ret = 0 /\ ~Issued("mmap")) => (calls = <<>> /\ maps = pre.maps)

\* a window advised as sequential is reused after the workload turned random
C12_Witness ==
    /\ PostPrep
    /\ ret = 0
    /\ calls = <<>>
    /\ td.random
    /\ \E m \in maps : m.ptr = After.mmap_ptr /\ m.advice = "MADV_SEQUENTIAL"

\* C13: fio_mmapio_queue leaves the file's window (base, offset, length) and
\* the live mappings exactly as it found them, for every direction; whenever it
\* returns it returns FIO_Q_COMPLETED, also when msync or madvise failed, and
\* such a failure shows in the request's error field and nowhere in the window.
C13_ExecuteLeavesWindow ==
    op = "queue" =>
        /\ After = Before
        /\ maps = pre.maps
        /\ pc = "completed" =>
              /\ ret = FIO_Q_COMPLETED
              /\ Failed({"msync", "madvise"}) <=> io_u.error # 0

\* an execute on a live window whose flush failed: completed, error recorded
C13_Witness ==
    /\ PostQueue
    /\ Failed({"msync"})
    /\ io_u.error = EINVAL
    /\ ret = FIO_Q_COMPLETED
    /\ After.mmap_ptr # NULL
    /\ \E m \in maps : m.ptr = After.mmap_ptr /\ m.len = After.mmap_sz

IsPowerOfTwo(x) == \E k \in 0..MMAP_TOTAL_SZ : x = 2 ^ k
LargestPowerOfTwoBelow(x, bound) == IsPowerOfTwo(x) /\ x <= bound /\ bound < 2 * x

C15_AddressInsideWindow ==
    (PostPrep /\ ret = 0 /\ After.mmap_ptr # NULL) =>
        /\ io_u.mmap_data.set
        /\ io_u.mmap_data.base = After.mmap_ptr
        /\ 0 <= io_u.mmap_data.idx
        /\ io_u.mmap_data.idx + io_u.buflen <= After.mmap_sz

\* C16 (as claimed): the window is reused only when its base is present; a
\* prepare that finds the base absent maps anew or fails, so it never returns 0
\* with an address computed from the absent base on the recorded range.
C16_NoReuseWithoutBase ==
    (PostPrep /\ Before.mmap_ptr = NULL /\ ~Issued("mmap")) =>
        /\ ret # 0
        /\ ~io_u.mmap_data.set

OpsIssued == [i \in DOMAIN SysCalls |-> SysCalls[i].op]

\* C18: a prepare that replaces a present window calls munmap once, on the
\* window's base with exactly the length the mapping was created with; when
\* that munmap fails prepare returns the error having called nothing else (no
\* retry, no mmap); every prepare issues at most one munmap, one mmap and one
\* madvise, in that order.
C18_ReleaseCreatedLength ==
    PostPrep =>
        /\ OpsIssued \in {<<>>, <<"munmap">>, <<"mmap">>, <<"munmap", "mmap">>,
                          <<"mmap", "madvise">>, <<"munmap", "mmap", "madvise">>}
        /\ \A i \in DOMAIN calls :
              calls[i].op = "munmap" =>
                  /\ Before.mmap_ptr # NULL
                  /\ calls[i].ptr = Before.mmap_ptr
                  /\ \E m \in pre.maps : m.ptr = calls[i].ptr /\ m.len = calls[i].len
        /\ Failed({"munmap"}) =>
              /\ OpsIssued = <<"munmap">>
              /\ ret # 0
              /\ pc = "failed"
              /\ maps = pre.maps
        /\ (Before.mmap_ptr # NULL /\ Issued("mmap")) => OpsIssued[1] = "munmap"

\* a miss on a present window whose munmap failed
C18_Witness ==
    /\ PostPrep
    /\ Before.mmap_ptr # NULL
    /\ Failed({"munmap"})
    /\ ret = EINVAL
    /\ Before.mmap_sz < mmap_map_size

\* C19: the protection of every mmap call is a function of the workload's
\* access mode alone: read and write for a mixed workload, write only for a
\* write workload without verification, write and read for a write workload
\* with verification, read only for a read workload.
C19_ProtectionByMode ==
    PostPrep =>
        \A i \in DOMAIN calls :
            calls[i].op = "mmap" =>
                /\ calls[i].flags =
                      CASE td.ddir = "rw" -> {"PROT_READ", "PROT_WRITE"}
                        [] td.ddir = "write" /\ ~td.verify -> {"PROT_WRITE"}
                        [] td.ddir = "write" /\ td.verify -> {"PROT_WRITE", "PROT_READ"}
                        [] td.ddir = "read" -> {"PROT_READ"}
                /\ calls[i].ok =>
                      \E m \in maps : m.ptr = calls[i].ptr /\ m.prot = calls[i].flags

\* a verifying write workload got a window that can also be read
C19_Witness ==
    /\ PostPrep
    /\ td.ddir = "write"
    /\ td.verify
    /\ \E i \in DOMAIN calls : calls[i].op = "mmap" /\ calls[i].ok
    /\ \E m \in maps : m.ptr = After.mmap_ptr /\ m.prot = {"PROT_READ", "PROT_WRITE"}

====
